---- MODULE Spec2Model ----
(***************************************************************************)
(* Model of terraform-provider-todo: the provider's Configure, the todo    *)
(* resource's Create/Read/Update/Delete/ImportState/Configure and the      *)
(* todos data source's Read/Configure, run against a remote todo service.  *)
(*                                                                         *)
(* Every handler blocks on exactly one API call and otherwise touches only *)
(* its own request and response, so a handler is one atomic action placed  *)
(* at its API call; concurrent invocations are interleavings of actions.   *)
(***************************************************************************)
EXTENDS Integers, Sequences, FiniteSets, TLC

\* ---------------------------------------------------------------- bounds
MaxTodos == 2
MaxClock == 2

\* ------------------------------------------------------ framework values
\* types.String / types.Bool: null, unknown or a known value.
StringNull == [k |-> "null"]
StringUnknown == [k |-> "unknown"]
StringValue(s) == [k |-> "value", v |-> s]
BoolNull == [k |-> "null"]
BoolUnknown == [k |-> "unknown"]
BoolValue(b) == [k |-> "value", v |-> b]
IsNull(x) == x.k = "null"
IsUnknown(x) == x.k = "unknown"
\* ValueString / ValueBool give the zero value for null and unknown.
ValueString(x) == IF x.k = "value" THEN x.v ELSE ""
ValueBool(x) == IF x.k = "value" THEN x.v ELSE FALSE

\* A nil pointer / nil provider data.
Nil == [k |-> "nil"]
\* No resource state (before Create, after Delete).
NullState == [k |-> "nostate"]

\* ------------------------------------------------------------ input sets
PriorityLow == "low"
Priorities == {"low", "high"}
\* priority is Optional: null when the configuration leaves it out.
PlanPriorities == {StringNull, StringValue("")} \cup {StringValue(p) : p \in Priorities}
Texts == {"a", "b"}
\* host is Optional: null, unknown (deferred) or a known string.
ConfigHosts == {StringNull, StringUnknown, StringValue(""), StringValue("http://cfg")}
\* os.Getenv("TODO_HOST"): "" when unset or empty.
EnvHosts == {"", "http://env"}
\* Errors of a client call that never reaches the service.
TransportErrs == {"connection refused"}
NotFound == "not found"
Res == {"r1", "r2"}
UUIDs == 1 .. MaxTodos

\* uuid.UUID.String() and time.Time.String()
IDString(u) == "id-" \o ToString(u)
TimeString(t) == "t" \o ToString(t)
\* Identifiers a user may pass to import: those the service can assign and
\* one it never assigns.
ImportIDs == {IDString(u) : u \in UUIDs} \cup {"id-none"}

VARIABLES env, provReq, provResp, newClientCalls, rClient, dClient,
          remote, nextId, clock, state, dsState, last, createdState

vars == <<env, provReq, provResp, newClientCalls, rClient, dClient,
          remote, nextId, clock, state, dsState, last, createdState>>

providerVars == <<provReq, provResp, newClientCalls>>
clientVars == <<rClient, dClient>>
remoteVars == <<remote, nextId, clock>>
ghostVars == <<createdState>>

\* Diagnostics.AddError(summary, detail) / AddAttributeError(path, summary, _).
\* A detail is the sequence of the strings the code concatenates.
Diag(summary, detail) == [summary |-> summary, attr |-> "", detail |-> detail]
AttrDiag(attr, summary) == [summary |-> summary, attr |-> attr, detail |-> <<>>]
HasError(diags) == Len(diags) > 0

\* ------------------------------------------------------------- provider
\* A resolution that falls back to the environment whenever the configured
\* value is empty.
ResolveHostEmptyFallsBack(config, getenv) ==
    IF ValueString(config.Host) # "" THEN ValueString(config.Host) ELSE getenv

\* provider.go 83-86: the environment value, overridden by a non-null
\* configured value.
ResolveHost(config, getenv) ==
    IF ~IsNull(config.Host) THEN ValueString(config.Host) ELSE getenv

\* provider.go 66-74
UnknownHostDiags(config) ==
    IF IsUnknown(config.Host)
    THEN <<AttrDiag("host", "Unknown todo API host")>>
    ELSE <<>>

\* A check that lets an empty host through.
MissingHostDiagsSkipped(host) == <<>>

\* provider.go 88-97
MissingHostDiags(host) ==
    IF host = ""
    THEN <<AttrDiag("host", "Missing todo API host")>>
    ELSE <<>>

\* todo.NewClient(host)
NewClient(host) == [k |-> "client", host |-> host]

EmptyProvResp == [diags |-> <<>>, ResourceData |-> Nil, DataSourceData |-> Nil]

\* todoProvider.Configure: the response for a configuration, an environment
\* and the constructor's outcome (fault = "" when it returns no error).
\* The second component is the sequence of hosts given to todo.NewClient.
ConfigureResult(config, getenv, fault) ==
    LET d1 == UnknownHostDiags(config)
        host == ResolveHost(config, getenv)
        d2 == MissingHostDiags(host)
    IN  IF HasError(d1)
        THEN <<[EmptyProvResp EXCEPT !.diags = d1], <<>>>>
        ELSE IF HasError(d2)
        THEN <<[EmptyProvResp EXCEPT !.diags = d2], <<>>>>
        ELSE IF fault # ""
        THEN <<[EmptyProvResp EXCEPT !.diags =
                   <<Diag("Unable to create todo API client",
                          <<"todo client error: ", fault>>)>>],
               <<host>>>>
        ELSE <<[diags |-> <<>>,
                ResourceData |-> NewClient(host),
                DataSourceData |-> NewClient(host)],
               <<host>>>>

\* What the latest request did: the handler, its resource, the plan (or the
\* import id) it was given, its diagnostics, the API calls it made, the error of its API call
\* and the number of resp.State.Set calls.
Idle(op) ==
    [op |-> op, r |-> "", plan |-> Nil, diags |-> <<>>, calls |-> <<>>,
     err |-> "", sets |-> 0]

\* The host configures a provider instance once, before any other request.
ProviderConfigure ==
    /\ provReq = Nil
    /\ \E h \in ConfigHosts, fault \in {""} \cup TransportErrs :
        LET config == [Host |-> h]
               res == ConfigureResult(config, env, fault)
           IN  /\ provReq' = config
               /\ provResp' = res[1]
               /\ newClientCalls' = res[2]
               /\ last' = Idle("ProviderConfigure")
               /\ UNCHANGED <<env, clientVars, remoteVars, state, dsState, ghostVars>>

\* A Configure without the nil check.
ResourceConfigureClientNoNilCheck(client, providerData) == providerData

\* todoResource.Configure
ResourceConfigureClient(client, providerData) ==
    IF providerData = Nil THEN client ELSE providerData

\* todosDataSource.Configure
DataSourceConfigureClient(client, providerData) ==
    IF providerData = Nil THEN client ELSE providerData

\* The host passes nil (validation) or what the provider's Configure returned.
ResourceConfigure ==
    \E pd \in {Nil, provResp.ResourceData} :
        /\ rClient' = ResourceConfigureClient(rClient, pd)
        /\ last' = [Idle("ResourceConfigure") EXCEPT !.r = pd.k]
        /\ UNCHANGED <<env, providerVars, dClient, remoteVars, state, dsState, ghostVars>>

DataSourceConfigure ==
    \E pd \in {Nil, provResp.DataSourceData} :
        /\ dClient' = DataSourceConfigureClient(dClient, pd)
        /\ last' = [Idle("DataSourceConfigure") EXCEPT !.r = pd.k]
        /\ UNCHANGED <<env, providerVars, rClient, remoteVars, state, dsState, ghostVars>>

\* ------------------------------------------------------ remote todo API
Absent == [k |-> "absent"]
Present(u) == remote[u] # Absent
Lookup(id) == {u \in UUIDs : Present(u) /\ IDString(u) = id}
Call(method, id, params) == [method |-> method, id |-> id, params |-> params]

\* client.CreateTodo(params): the service assigns id and timestamps, and a
\* new todo is not completed.
CreateTodo(params, fault) ==
    IF fault # "" THEN [err |-> fault, td |-> Nil]
    ELSE [err |-> "",
          td |-> [ID |-> nextId, Text |-> params.Text, Priority |-> params.Priority,
                  Completed |-> FALSE,
                  TimeCreated |-> clock + 1, TimeUpdated |-> clock + 1]]

\* client.GetTodo(id)
GetTodo(id, fault) ==
    IF fault # "" THEN [err |-> fault, td |-> Nil]
    ELSE IF Lookup(id) = {} THEN [err |-> NotFound, td |-> Nil]
    ELSE [err |-> "", td |-> remote[CHOOSE u \in Lookup(id) : TRUE]]

\* client.UpdateTodo(id, params): every field of params is a non-nil pointer
\* here, so the service stores all three.
UpdateTodo(id, params, fault) ==
    IF fault # "" THEN [err |-> fault, td |-> Nil]
    ELSE IF Lookup(id) = {} THEN [err |-> NotFound, td |-> Nil]
    ELSE [err |-> "",
          td |-> [remote[CHOOSE u \in Lookup(id) : TRUE] EXCEPT
                     !.Text = params.Text, !.Priority = params.Priority,
                     !.Completed = params.Completed, !.TimeUpdated = clock + 1]]

\* client.DeleteTodo(id)
DeleteTodo(id, fault) ==
    IF fault # "" THEN [err |-> fault]
    ELSE IF Lookup(id) = {} THEN [err |-> NotFound]
    ELSE [err |-> ""]

RECURSIVE ListFrom(_)
ListFrom(u) ==
    IF u > MaxTodos THEN <<>>
    ELSE (IF Present(u) THEN <<remote[u]>> ELSE <<>>) \o ListFrom(u + 1)

\* client.ListTodos(): every todo of the service, no filter.
ListTodos(fault) ==
    IF fault # "" THEN [err |-> fault, todos |-> <<>>]
    ELSE [err |-> "", todos |-> ListFrom(1)]

Faults == {""} \cup TransportErrs
\* The service can serve a mutation only within the model's bounds.
CanMutate == clock < MaxClock
CanCreate == CanMutate /\ nextId <= MaxTodos

\* Another client of the service completes or removes a todo.
ExternalComplete ==
    \E u \in UUIDs :
        /\ Present(u) /\ ~remote[u].Completed /\ CanMutate
        /\ remote' = [remote EXCEPT ![u].Completed = TRUE, ![u].TimeUpdated = clock + 1]
        /\ clock' = clock + 1
        /\ createdState' = [createdState EXCEPT ![u] = NullState]
        /\ last' = Idle("ExternalComplete")
        /\ UNCHANGED <<env, providerVars, clientVars, nextId, state, dsState>>

ExternalDelete ==
    \E u \in UUIDs :
        /\ Present(u)
        /\ remote' = [remote EXCEPT ![u] = Absent]
        /\ createdState' = [createdState EXCEPT ![u] = NullState]
        /\ last' = Idle("ExternalDelete")
        /\ UNCHANGED <<env, providerVars, clientVars, nextId, clock, state, dsState>>

\* --------------------------------------------------------- todo resource
\* todoResourceModel filled from a todo of the service (Create 243-248).
CreateState(plan, td) ==
    [ID |-> StringValue(IDString(td.ID)),
     Text |-> StringValue(td.Text),
     Priority |-> StringValue(td.Priority),
     Completed |-> BoolValue(td.Completed),
     TimeCreated |-> StringValue(TimeString(td.TimeCreated)),
     TimeUpdated |-> StringValue(TimeString(td.TimeUpdated))]

\* A refresh that forgets the completed flag.
RefreshStateKeepsCompleted(model, td) ==
    [model EXCEPT !.Text = StringValue(td.Text),
                  !.Priority = StringValue(td.Priority),
                  !.TimeCreated = StringValue(TimeString(td.TimeCreated)),
                  !.TimeUpdated = StringValue(TimeString(td.TimeUpdated))]

\* Read 279-283 and Update 324-328 overwrite every field but the id.
RefreshState(model, td) ==
    [model EXCEPT !.Text = StringValue(td.Text),
                  !.Priority = StringValue(td.Priority),
                  !.Completed = BoolValue(td.Completed),
                  !.TimeCreated = StringValue(TimeString(td.TimeCreated)),
                  !.TimeUpdated = StringValue(TimeString(td.TimeUpdated))]

\* A schema whose id has no UseStateForUnknown plan modifier.
PlanForIdUnknown(prior, text, priority) ==
    [ID |-> StringUnknown,
     Text |-> StringValue(text),
     Priority |-> priority,
     Completed |-> BoolUnknown,
     TimeCreated |-> StringUnknown,
     TimeUpdated |-> StringUnknown]

\* The plan the host builds from the schema (182-208): text and priority come
\* from the configuration, id uses UseStateForUnknown, and the computed
\* attributes without a plan modifier are unknown.
PlanFor(prior, text, priority) ==
    [ID |-> IF prior = NullState THEN StringUnknown ELSE prior.ID,
     Text |-> StringValue(text),
     Priority |-> priority,
     Completed |-> BoolUnknown,
     TimeCreated |-> StringUnknown,
     TimeUpdated |-> StringUnknown]

\* A Create that sends the priority without defaulting it.
CreateParamsNoDefault(plan) ==
    [Text |-> ValueString(plan.Text),
     Priority |-> ValueString(plan.Priority)]

\* Create 220-230
CreateParams(plan) ==
    [Text |-> ValueString(plan.Text),
     Priority |-> IF ValueString(plan.Priority) = ""
                  THEN PriorityLow ELSE ValueString(plan.Priority)]

\* Update 303-311
UpdateParams(plan) ==
    [Text |-> ValueString(plan.Text),
     Priority |-> ValueString(plan.Priority),
     Completed |-> ValueBool(plan.Completed)]

\* What a handler leaves in its response: diagnostics, the number of
\* resp.State.Set calls it made, and the response state.
Resp(diags, sets, st) == [diags |-> diags, sets |-> sets, State |-> st]

\* Create 234-255; the response state of a create starts null.
CreateResp(plan, res) ==
    IF res.err # ""
    THEN Resp(<<Diag("Error creating todo",
                     <<"Could not create todo, unexpected error: ", res.err>>)>>,
              0, NullState)
    ELSE Resp(<<>>, 1, CreateState(plan, res.td))

\* A Read that takes a failed GetTodo for an unchanged todo.
ReadRespIgnoresError(st, res) ==
    IF res.err # ""
    THEN Resp(<<>>, 1, st)
    ELSE Resp(<<>>, 1, RefreshState(st, res.td))

\* Read 270-290; the response state starts as the request's state.
ReadResp(st, res) ==
    IF res.err # ""
    THEN Resp(<<Diag("Error reading todo",
                     <<"Could not read todo ID ", ValueString(st.ID), ": ", res.err>>)>>,
              0, st)
    ELSE Resp(<<>>, 1, RefreshState(st, res.td))

\* An Update that stores the plan before it looks at the error.
UpdateRespStoresPlanFirst(prior, plan, res) ==
    IF res.err # ""
    THEN Resp(<<Diag("Error updating todo",
                     <<"Could not update todo, unexpected error: ", res.err>>)>>,
              1, plan)
    ELSE Resp(<<>>, 2, RefreshState(plan, res.td))

\* Update 315-335; the response state starts as the prior state.
UpdateResp(prior, plan, res) ==
    IF res.err # ""
    THEN Resp(<<Diag("Error updating todo",
                     <<"Could not update todo, unexpected error: ", res.err>>)>>,
              0, prior)
    ELSE Resp(<<>>, 1, RefreshState(plan, res.td))

\* Delete 349-356; the host removes the state when Delete reports no error.
DeleteResp(st, res) ==
    IF res.err # ""
    THEN Resp(<<Diag("Error deleting todo",
                     <<"Could not delete todo, unexpected error: ", res.err>>)>>,
              0, st)
    ELSE Resp(<<>>, 0, NullState)

\* ImportStatePassthroughID(path.Root("id")): only the id is set.
ImportedState(id) ==
    [ID |-> StringValue(id), Text |-> StringNull, Priority |-> StringNull,
     Completed |-> BoolNull, TimeCreated |-> StringNull, TimeUpdated |-> StringNull]

Record(op, r, plan, resp, calls, err) ==
    [op |-> op, r |-> r, plan |-> plan, diags |-> resp.diags, calls |-> calls,
     err |-> err, sets |-> resp.sets]

\* State that Create or a successful Read or Update has filled.
Populated(st) == st # NullState /\ ~IsNull(st.Text)

Create(r) ==
    /\ rClient # Nil
    /\ state[r] = NullState
    /\ \E text \in Texts, priority \in PlanPriorities, fault \in Faults :
        LET plan == PlanFor(state[r], text, priority)
            params == CreateParams(plan)
            res == CreateTodo(params, fault)
            resp == CreateResp(plan, res)
        IN  /\ fault = "" => CanCreate
            /\ state' = [state EXCEPT ![r] = resp.State]
            /\ last' = Record("Create", r, plan, resp,
                              <<Call("CreateTodo", "", params)>>, res.err)
            /\ IF res.err = ""
               THEN /\ remote' = [remote EXCEPT ![res.td.ID] = res.td]
                    /\ nextId' = nextId + 1
                    /\ clock' = clock + 1
                    /\ createdState' = [createdState EXCEPT ![res.td.ID] = resp.State]
               ELSE UNCHANGED <<remoteVars, createdState>>
            /\ UNCHANGED <<env, providerVars, clientVars, dsState>>

Read(r) ==
    /\ rClient # Nil
    /\ state[r] # NullState
    /\ \E fault \in Faults :
        LET id == ValueString(state[r].ID)
            res == GetTodo(id, fault)
            resp == ReadResp(state[r], res)
        IN  /\ state' = [state EXCEPT ![r] = resp.State]
            /\ last' = Record("Read", r, Nil, resp, <<Call("GetTodo", id, Nil)>>, res.err)
            /\ UNCHANGED <<env, providerVars, clientVars, remoteVars, dsState, ghostVars>>

\* The host calls Update when the configuration differs from the state.
Update(r) ==
    /\ rClient # Nil
    /\ Populated(state[r])
    /\ \E text \in Texts, priority \in PlanPriorities, fault \in Faults :
        LET plan == PlanFor(state[r], text, priority)
            params == UpdateParams(plan)
            id == ValueString(plan.ID)
            res == UpdateTodo(id, params, fault)
            resp == UpdateResp(state[r], plan, res)
        IN  /\ plan.Text # state[r].Text \/ plan.Priority # state[r].Priority
            /\ (fault = "" /\ Lookup(id) # {}) => CanMutate
            /\ state' = [state EXCEPT ![r] = resp.State]
            /\ last' = Record("Update", r, plan, resp,
                              <<Call("UpdateTodo", id, params)>>, res.err)
            /\ IF res.err = ""
               THEN /\ remote' = [remote EXCEPT ![res.td.ID] = res.td]
                    /\ clock' = clock + 1
                    /\ createdState' = [createdState EXCEPT ![res.td.ID] = NullState]
               ELSE UNCHANGED <<remote, clock, createdState>>
            /\ UNCHANGED <<env, providerVars, clientVars, nextId, dsState>>

Delete(r) ==
    /\ rClient # Nil
    /\ Populated(state[r])
    /\ \E fault \in Faults :
        LET id == ValueString(state[r].ID)
            res == DeleteTodo(id, fault)
            resp == DeleteResp(state[r], res)
        IN  /\ state' = [state EXCEPT ![r] = resp.State]
            /\ last' = Record("Delete", r, Nil, resp, <<Call("DeleteTodo", id, Nil)>>, res.err)
            /\ IF res.err = ""
               THEN LET u == CHOOSE x \in Lookup(id) : TRUE
                    IN  /\ remote' = [remote EXCEPT ![u] = Absent]
                        /\ createdState' = [createdState EXCEPT ![u] = NullState]
               ELSE UNCHANGED <<remote, createdState>>
            /\ UNCHANGED <<env, providerVars, clientVars, nextId, clock, dsState>>

ImportState(r) ==
    /\ rClient # Nil
    /\ state[r] = NullState
    /\ \E id \in ImportIDs :
        /\ state' = [state EXCEPT ![r] = ImportedState(id)]
        /\ last' = [Idle("ImportState") EXCEPT !.r = r, !.plan = [ID |-> id], !.sets = 1]
        /\ UNCHANGED <<env, providerVars, clientVars, remoteVars, dsState, ghostVars>>

\* ----------------------------------------------------- todos data source
\* todosModel for one todo of the service (Read 102-109).
TodosModel(td) ==
    [ID |-> StringValue(IDString(td.ID)),
     Text |-> StringValue(td.Text),
     Priority |-> StringValue(td.Priority),
     Completed |-> BoolValue(td.Completed),
     TimeCreated |-> StringValue(TimeString(td.TimeCreated)),
     TimeUpdated |-> StringValue(TimeString(td.TimeUpdated))]

\* A Go slice is nil until the first append.
GoAppend(slice, x) ==
    IF slice = Nil THEN [k |-> "slice", elems |-> <<x>>]
    ELSE [slice EXCEPT !.elems = Append(@, x)]

\* Read 101-112: the loop over the todos returned.
RECURSIVE AppendTodos(_, _)
AppendTodos(slice, todos) ==
    IF todos = <<>> THEN slice
    ELSE AppendTodos(GoAppend(slice, TodosModel(Head(todos))), Tail(todos))

\* resp.State.Set stores a nil slice as a null list and any other slice as
\* a list of its elements.
ListNull == [k |-> "null"]
ListValue(elems) == [k |-> "value", v |-> elems]
SetList(slice) == IF slice = Nil THEN ListNull ELSE ListValue(slice.elems)

PlaceholderID == "todos_id_placeholder"

\* todosDataSource.Read 89-122; state.Todos is declared and never made.
DataSourceReadResp(prior, res) ==
    IF res.err # ""
    THEN Resp(<<Diag("Unable to read todos", <<res.err>>)>>, 0, prior)
    ELSE Resp(<<>>, 1,
              [ID |-> StringValue(PlaceholderID),
               Todos |-> SetList(AppendTodos(Nil, res.todos))])

DataSourceRead ==
    /\ dClient # Nil
    /\ \E fault \in Faults :
        LET res == ListTodos(fault)
            resp == DataSourceReadResp(dsState, res)
        IN  /\ dsState' = resp.State
            /\ last' = Record("DataSourceRead", "", Nil, resp,
                              <<Call("ListTodos", "", Nil)>>, res.err)
            /\ UNCHANGED <<env, providerVars, clientVars, remoteVars, state, ghostVars>>

\* --------------------------------------------------------- specification
\* The state after construction: nothing configured, an empty service.
Init ==
    /\ env \in EnvHosts
    /\ provReq = Nil
    /\ provResp = EmptyProvResp
    /\ newClientCalls = <<>>
    /\ rClient = Nil
    /\ dClient = Nil
    /\ remote = [u \in UUIDs |-> Absent]
    /\ nextId = 1
    /\ clock = 0
    /\ state = [r \in Res |-> NullState]
    /\ dsState = NullState
    /\ last = Idle("Init")
    /\ createdState = [u \in UUIDs |-> NullState]

\* The whole lifecycle of one provider instance managing one resource.
Next ==
    \/ ProviderConfigure
    \/ ResourceConfigure
    \/ DataSourceConfigure
    \/ Create("r1")
    \/ Read("r1")
    \/ Update("r1")
    \/ Delete("r1")
    \/ DataSourceRead

Spec == Init /\ [][Next]_vars

\* A provider configured from TODO_HOST whose client both the resource and
\* the data source hold: a state Spec reaches by ProviderConfigure,
\* ResourceConfigure and DataSourceConfigure.
ServingHost == "http://env"
InitServing ==
    /\ env = ServingHost
    /\ provReq = [Host |-> StringNull]
    /\ provResp = ConfigureResult([Host |-> StringNull], ServingHost, "")[1]
    /\ newClientCalls = <<ServingHost>>
    /\ rClient = NewClient(ServingHost)
    /\ dClient = NewClient(ServingHost)
    /\ remote = [u \in UUIDs |-> Absent]
    /\ nextId = 1
    /\ clock = 0
    /\ state = [r \in Res |-> NullState]
    /\ dsState = NullState
    /\ last = Idle("Init")
    /\ createdState = [u \in UUIDs |-> NullState]

\* Requests for two resources, imports, and other clients of the service,
\* in any interleaving.
NextServing ==
    \/ \E r \in Res : Create(r)
    \/ \E r \in Res : Read(r)
    \/ \E r \in Res : Update(r)
    \/ \E r \in Res : Delete(r)
    \/ \E r \in Res : ImportState(r)
    \/ ExternalComplete
    \/ ExternalDelete

SpecServing == InitServing /\ [][NextServing]_vars

\* The data source read beside the requests that change the service.
NextData ==
    \/ \E r \in Res : Create(r)
    \/ \E r \in Res : Delete(r)
    \/ DataSourceRead
    \/ ExternalComplete

SpecData == InitServing /\ [][NextData]_vars

\* ================================================================ claims
HasDiag(diags, summary) == \E i \in DOMAIN diags : diags[i].summary = summary
Configured == provReq # Nil

\* ---------------------------------------------------------------- C2
MissingHostCase ==
    /\ Configured
    /\ \/ IsUnknown(provReq.Host)
       \/ IsNull(provReq.Host) /\ env = ""

\* C2: a Configure with no host (null configuration and TODO_HOST unset or
\* empty, or an unknown configured host) records exactly the one error
\* diagnostic on the host attribute that its inputs determine, whatever the
\* client constructor would have done, never calls the constructor, and
\* leaves ResourceData and DataSourceData unset; no Configure at all hands
\* the constructor an empty host.
C2_MissingHostFails ==
    /\ \A i \in DOMAIN newClientCalls : newClientCalls[i] # ""
    /\ MissingHostCase =>
        /\ provResp.diags =
              <<AttrDiag("host", IF IsUnknown(provReq.Host)
                                 THEN "Unknown todo API host"
                                 ELSE "Missing todo API host")>>
        /\ newClientCalls = <<>>
        /\ provResp.ResourceData = Nil
        /\ provResp.DataSourceData = Nil

C2_Witness ==
    /\ MissingHostCase
    /\ IsNull(provReq.Host)
    /\ HasDiag(provResp.diags, "Missing todo API host")

\* ---------------------------------------------------------------- C3
KnownHostConfigured == Configured /\ ~IsUnknown(provReq.Host)

\* C3 as claimed: with a known configured host, Configure reports the
\* missing host only when the configured value and TODO_HOST are both empty;
\* when either is non-empty the constructor gets a non-empty host, and a
\* non-empty configured value wins over TODO_HOST.
C3_AsClaimed ==
    KnownHostConfigured =>
        LET configured == ValueString(provReq.Host)
        IN  /\ HasDiag(provResp.diags, "Missing todo API host")
                  <=> (configured = "" /\ env = "")
            /\ (configured # "" \/ env # "") =>
                  /\ Len(newClientCalls) = 1
                  /\ newClientCalls[1] # ""
            /\ configured # "" => newClientCalls = <<configured>>

\* C3 amended: TODO_HOST is used only when the configured host is null; the
\* effective host is the configured value when it is not null (even when it
\* is empty) and TODO_HOST otherwise. Configure reports the missing host
\* exactly when the effective host is empty, and otherwise calls the
\* constructor once with the effective host.
C3_HostResolution ==
    KnownHostConfigured =>
        LET effective == IF IsNull(provReq.Host) THEN env ELSE provReq.Host.v
        IN  /\ HasDiag(provResp.diags, "Missing todo API host") <=> effective = ""
            /\ effective = "" => newClientCalls = <<>>
            /\ effective # "" => newClientCalls = <<effective>>

C3_Witness ==
    /\ KnownHostConfigured
    /\ provReq.Host = StringValue("")
    /\ env # ""
    /\ HasDiag(provResp.diags, "Missing todo API host")

\* --------------------------------------------------------------- C10
CrudOps == {"Create", "Read", "Update", "Delete", "DataSourceRead"}

\* C10: the provider hands out a client only without an error, and then the
\* same one to the resource and to the data source; a resource or data
\* source Configure given nil keeps the client it has; a client field, once
\* set, never changes; and no Create, Read, Update, Delete or data source
\* Read step changes a client field or the provider's data.
C10_ClientReadOnly ==
    /\ [](\/ provResp.ResourceData = Nil /\ provResp.DataSourceData = Nil
          \/ /\ provResp.ResourceData = provResp.DataSourceData
             /\ provResp.ResourceData # Nil
             /\ provResp.diags = <<>>)
    /\ [][/\ (last'.op = "ResourceConfigure" /\ last'.r = "nil") => rClient' = rClient
          /\ (last'.op = "DataSourceConfigure" /\ last'.r = "nil") => dClient' = dClient
          /\ rClient # Nil => rClient' = rClient
          /\ dClient # Nil => dClient' = dClient
          /\ last'.op \in CrudOps =>
                UNCHANGED <<rClient, dClient, provReq, provResp, newClientCalls, env>>]_vars

C10_Witness ==
    /\ last.op = "ResourceConfigure"
    /\ last.r = "nil"
    /\ rClient # Nil
    /\ rClient = dClient

\* ----------------------------------------------------------------- C1
\* C1 as claimed: an Update of a todo the service holds sends the todo's
\* current completed flag (the plan's is always unknown) and, when the plan
\* leaves priority null, the todo's current priority.
C1_UpdateSendsCurrentValues ==
    [][last'.op = "Update" =>
         LET req == last'.calls[1]
             found == Lookup(req.id)
         IN  \A u \in found :
                 /\ IsUnknown(last'.plan.Completed) =>
                       req.params.Completed = remote[u].Completed
                 /\ IsNull(last'.plan.Priority) =>
                       req.params.Priority = remote[u].Priority]_vars

\* ----------------------------------------------------------------- C4
\* C4: a Read for an id the service no longer holds (deleted through the
\* resource or by another client) records the one diagnostic
\* "Error reading todo" and makes no resp.State.Set call: it writes no record
\* as the todo's current value.
C4_ReadOfDeletedFails ==
    (last.op = "Read" /\ Lookup(last.calls[1].id) = {}) =>
        /\ Len(last.diags) = 1
        /\ last.diags[1].summary = "Error reading todo"
        /\ last.sets = 0

C4_Witness ==
    /\ last.op = "Read"
    /\ Lookup(last.calls[1].id) = {}
    /\ last.err = NotFound
    /\ Populated(state[last.r])
    /\ nextId > 1

\* ----------------------------------------------------------------- C5
\* C5: a Create sends exactly the plan's text and the plan's priority, with
\* "low" in place of a null or empty priority, and nothing else; when the
\* call succeeds the stored state holds the six fields of the todo the
\* service returned, so its id and timestamps are not empty and its text
\* and priority are those sent.
C5_CreateEchoes ==
    last.op = "Create" =>
        LET req == last.calls[1].params
            planned == last.plan.Priority
            st == state[last.r]
        IN  /\ DOMAIN req = {"Text", "Priority"}
            /\ req.Text = last.plan.Text.v
            /\ req.Priority = IF IsNull(planned) \/ planned.v = ""
                              THEN "low" ELSE planned.v
            /\ last.diags = <<>> =>
                  /\ \A f \in {"ID", "Text", "Priority", "Completed",
                                 "TimeCreated", "TimeUpdated"} : st[f].k = "value"
                  /\ st.ID.v # "" /\ st.TimeCreated.v # "" /\ st.TimeUpdated.v # ""
                  /\ st.Text.v = req.Text
                  /\ st.Priority.v = req.Priority
                  /\ \E u \in UUIDs :
                        /\ Present(u)
                        /\ st.ID.v = IDString(remote[u].ID)
                        /\ st.Text.v = remote[u].Text
                        /\ st.Priority.v = remote[u].Priority
                        /\ st.Completed.v = remote[u].Completed
                        /\ st.TimeCreated.v = TimeString(remote[u].TimeCreated)
                        /\ st.TimeUpdated.v = TimeString(remote[u].TimeUpdated)

C5_Witness ==
    /\ last.op = "Create"
    /\ last.diags = <<>>
    /\ IsNull(last.plan.Priority)
    /\ state[last.r].Priority = StringValue("low")

\* ----------------------------------------------------------------- C6
OnlyIdSet(st) ==
    /\ st # NullState
    /\ st.ID.k = "value"
    /\ \A f \in {"Text", "Priority", "Completed", "TimeCreated", "TimeUpdated"} :
          IsNull(st[f])

\* C6: ImportState sets the id and nothing else, and a successful Read of
\* an imported id whose todo has not changed since its Create yields the
\* very state that Create stored.
C6_ImportThenRead ==
    [][/\ last'.op = "ImportState" =>
             /\ OnlyIdSet(state'[last'.r])
             /\ state'[last'.r].ID = StringValue(last'.plan.ID)
       /\ (last'.op = "Read" /\ last'.diags = <<>> /\ OnlyIdSet(state[last'.r])) =>
             \A u \in Lookup(state[last'.r].ID.v) :
                 createdState[u] # NullState =>
                     state'[last'.r] = createdState[u]]_vars

C6_Witness ==
    /\ last.op = "Read"
    /\ last.diags = <<>>
    /\ Populated(state["r1"])
    /\ state["r1"] = state["r2"]
    /\ \E u \in UUIDs : createdState[u] = state[last.r]

\* ----------------------------------------------------------------- C7
\* C7: Create stores the id the service assigned; Read and Update leave the
\* id in the state as it was; every GetTodo, UpdateTodo and DeleteTodo call
\* is addressed to the id in the state; and the parameters of CreateTodo and
\* UpdateTodo hold no id and no timestamp.
C7_IdImmutable ==
    [][LET r == last'.r
       IN  /\ (last'.op = "Create" /\ last'.diags = <<>>) =>
                 /\ ~Present(nextId) /\ remote'[nextId] # Absent
                 /\ state'[r].ID = StringValue(IDString(remote'[nextId].ID))
           /\ last'.op \in {"Read", "Update"} =>
                 /\ state'[r] # NullState
                 /\ state'[r].ID = state[r].ID
           /\ last'.op \in {"Read", "Update", "Delete"} =>
                 /\ Len(last'.calls) = 1
                 /\ state[r].ID.k = "value"
                 /\ last'.calls[1].id = state[r].ID.v
           /\ last'.op = "Create" =>
                 DOMAIN last'.calls[1].params = {"Text", "Priority"}
           /\ last'.op = "Update" =>
                 DOMAIN last'.calls[1].params = {"Text", "Priority", "Completed"}]_vars

C7_Witness ==
    /\ last.op = "Update"
    /\ last.diags = <<>>
    /\ state[last.r].ID = StringValue(last.calls[1].id)
    /\ state[last.r].TimeUpdated # state[last.r].TimeCreated

\* ----------------------------------------------------------------- C8
\* C8: every Create, Read, Update, Delete and data source Read makes one
\* API call; when the call fails the handler records one diagnostic whose
\* detail holds the call's error text, makes no resp.State.Set call and
\* leaves the state as it was; when it succeeds the handler records nothing
\* and writes the state in one resp.State.Set call (Delete, which has
\* nothing to store, in none).
C8_AllOrNothing ==
    /\ [](last.op \in CrudOps =>
            /\ Len(last.calls) = 1
            /\ last.err # "" =>
                  /\ Len(last.diags) = 1
                  /\ \E i \in DOMAIN last.diags[1].detail :
                        last.diags[1].detail[i] = last.err
                  /\ last.sets = 0
            /\ last.err = "" =>
                  /\ last.diags = <<>>
                  /\ last.sets = IF last.op = "Delete" THEN 0 ELSE 1)
    /\ [][(last'.op \in CrudOps /\ last'.err # "") =>
             UNCHANGED <<state, dsState>>]_vars

C8_Witness ==
    /\ last.op = "Update"
    /\ last.err # ""
    /\ Populated(state[last.r])
    /\ state[last.r].Text # last.plan.Text

\* ----------------------------------------------------------------- C9
PresentCount == Cardinality({u \in UUIDs : Present(u)})

\* C9 as claimed: a successful data source Read makes one ListTodos call
\* without parameters and stores the placeholder id with a list that is
\* not null and holds, in the service's order, one entry of six fields per
\* todo; with no todos, an empty list.
C9_ListAllTodos ==
    (last.op = "DataSourceRead" /\ last.err = "") =>
        /\ last.calls = <<Call("ListTodos", "", Nil)>>
        /\ dsState.ID = StringValue("todos_id_placeholder")
        /\ dsState.Todos.k = "value"
        /\ Len(dsState.Todos.v) = PresentCount
        /\ \A i \in DOMAIN dsState.Todos.v :
              LET e == dsState.Todos.v[i]
                  td == ListFrom(1)[i]
              IN  /\ e.ID = StringValue(IDString(td.ID))
                  /\ e.Text = StringValue(td.Text)
                  /\ e.Priority = StringValue(td.Priority)
                  /\ e.Completed = BoolValue(td.Completed)
                  /\ e.TimeCreated = StringValue(TimeString(td.TimeCreated))
                  /\ e.TimeUpdated = StringValue(TimeString(td.TimeUpdated))

====
